---- MODULE Spec2Model ----
(***************************************************************************)
(* Model of credential/integrity/jwt.go: the JWT encoding of verifiable    *)
(* credentials and presentations (sign, verify, claim mapping), and of     *)
(* example/wallet.go: the SimpleWallet shared by concurrent goroutines.    *)
(*                                                                         *)
(* A caller holds one object, a credential or a presentation, and calls    *)
(* the package's functions on it.  Go passes the struct by value, but the  *)
(* credentialSubject map inside it is a reference: what a callee does to   *)
(* the map is done to the caller's map.                                    *)
(***************************************************************************)
EXTENDS Integers, Sequences, FiniteSets, TLC

VARIABLES
    kind,       \* what the caller holds: "vc" a credential, "vp" a
                \* presentation, "tok" a claim set received from elsewhere
    cred,       \* the caller's credential.VerifiableCredential
    pres,       \* the caller's credential.VerifiablePresentation
    vcSign,     \* the latest SignVerifiableCredentialJWT call: input and result
    vcPrev,     \* the SignVerifiableCredentialJWT call before that one
    vcVerify,   \* the latest VerifyVerifiableCredentialJWT call
    vpSign,     \* the latest SignVerifiablePresentationJWT call
    vv,         \* the VerifyVerifiablePresentationJWT call in progress
    uuids,      \* how many values uuid.New() has returned
    nonces,     \* the nonce claim of every claim set built so far, in order
    claims,     \* the caller's jwt.Token (a claim set)
    vcParse,    \* the ParseVerifiableCredentialFromToken call on claims
    vpParse,    \* the ParseVerifiablePresentationFromJWT call on a token of claims
    vcs,        \* SimpleWallet.vcs: credential id -> credential JWT
    dids,       \* SimpleWallet.dids: DID -> list of WalletKeys
    mux,        \* SimpleWallet.mux: "free", or the goroutine that holds it
    th          \* per goroutine: the wallet call it is in, and where

walletVars == <<vcs, dids, mux, th>>
vars == <<kind, cred, pres, vcSign, vcPrev, vcVerify, vpSign, vv, uuids, nonces,
          claims, vcParse, vpParse, vcs, dids, mux, th>>

----------------------------------------------------------------------------
(* Bounds and input sets *)

\* longest list of embedded credentials in a presentation
MaxCreds == 3

\* jwt.go:21-23
VCJWTProperty == "vc"
VPJWTProperty == "vp"
NonceProperty == "nonce"

\* how many values uuid.New() is asked for
MaxUUIDs == 3

\* the n-th value uuid.New().String() returns: a random UUID, taken as fresh
\* (a value the generator has not returned before)
UUID(n) == "uuid-" \o ToString(n)

\* timestamps: two instants, each in RFC 3339 UTC form and with a zone offset
D1Z   == "2021-01-01T00:00:00Z"
D1Off == "2021-01-01T01:00:00+01:00"
D2Z   == "2022-01-01T00:00:00Z"
D2Off == "2022-01-01T01:00:00+01:00"
IssuanceDates   == {"", "not-a-date", D1Z, D1Off}
ExpirationDates == {"", "not-a-date", D2Z, D2Off}

----------------------------------------------------------------------------
(* Values: Go's `any`, claim values, maps *)

Absent      == [k |-> "absent", s |-> "", n |-> 0]
NilV        == [k |-> "nil", s |-> "", n |-> 0]
StrV(x)     == [k |-> "str", s |-> x, n |-> 0]
ObjV(x)     == [k |-> "obj", s |-> x, n |-> 0]
TimeV(e)    == [k |-> "time", s |-> "", n |-> e]
NumV(e)     == [k |-> "num", s |-> "", n |-> e]

\* a Go map[string]any: nil, or a finite map from keys to strings
NilMap      == [nil |-> TRUE, m |-> <<>>]
MapOf(f)    == [nil |-> FALSE, m |-> f]
MapHas(cs, key) == ~cs.nil /\ key \in DOMAIN cs.m
\* delete(m, key): no-op on a nil map or an absent key
MapDelete(cs, key) ==
    IF cs.nil THEN cs
    ELSE [cs EXCEPT !.m = [x \in (DOMAIN cs.m) \ {key} |-> cs.m[x]]]
\* m[key] = val, on a non-nil map
MapPut(cs, key, val) ==
    [cs EXCEPT !.m = [x \in (DOMAIN cs.m) \cup {key} |->
                         IF x = key THEN val ELSE cs.m[x]]]

\* credential.VerifiableCredentialIDProperty
VerifiableCredentialIDProperty == "id"

\* CredentialSubject.GetID(): the "id" entry, "" when there is none
GetID(cs) ==
    IF MapHas(cs, VerifiableCredentialIDProperty)
    THEN cs.m[VerifiableCredentialIDProperty] ELSE ""

----------------------------------------------------------------------------
(* credential.VerifiableCredential and credential.VerifiablePresentation *)

EmptyCred ==
    [Issuer |-> NilV, ID |-> "", IssuanceDate |-> "", ExpirationDate |-> "",
     CredentialSubject |-> NilMap, Proof |-> FALSE]

Issuers == {NilV, StrV(""), StrV("did:example:123"), ObjV("{id: did:example:123}")}
IDs == {"", "urn:uuid:abc"}
Subjects ==
    {NilMap,
     MapOf([x \in {"id"} |-> "did:example:456"]),
     MapOf([x \in {"id", "name"} |-> IF x = "id" THEN "did:example:456" ELSE "alice"]),
     MapOf([x \in {"name"} |-> "alice"]),
     MapOf([x \in {"id"} |-> ""])}

Credentials ==
    [Issuer : Issuers, ID : IDs, IssuanceDate : IssuanceDates,
     ExpirationDate : ExpirationDates, CredentialSubject : Subjects,
     Proof : BOOLEAN]

\* VerifiableCredential.IsEmpty(): no field is populated
CredIsEmpty(c) == c = EmptyCred

EmptyPres ==
    [Holder |-> "", ID |-> "", VerifiableCredential |-> <<>>, Proof |-> FALSE]

\* the credentials a presentation embeds (signed credential tokens)
EmbeddedCreds == {"vcA", "vcB", "vcBad"}
CredLists == UNION {[1..n -> EmbeddedCreds] : n \in 0..MaxCreds}
Holders == {"", "did:holder", "did:other"}
Presentations ==
    [Holder : Holders, ID : {"", "urn:uuid:vp1"},
     VerifiableCredential : CredLists, Proof : BOOLEAN]

\* VerifiablePresentation.IsEmpty(): no field is populated
PresIsEmpty(p) == p = EmptyPres

----------------------------------------------------------------------------
(* jwt.Token: the claim set *)

NoAud == [set |-> FALSE, v |-> <<>>]
\* the vc / vp claim: whether it is set, and its value as JSON: shape "object"
\* is an object whose members fit the Go struct (c, p: what it decodes to),
\* "string" a JSON string, "mistyped" an object with a member of another type
\* than the struct's field (an "id" that is a number)
NoVC  == [set |-> FALSE, c |-> EmptyCred, shape |-> "object"]
NoVP  == [set |-> FALSE, p |-> EmptyPres, shape |-> "object"]

\* jwt.New()
NewToken ==
    [exp |-> Absent, nonce |-> Absent, iss |-> Absent, iat |-> Absent,
     nbf |-> Absent, jti |-> Absent, sub |-> Absent, aud |-> NoAud,
     vc |-> NoVC, vp |-> NoVP]

\* time.Parse(time.RFC3339, s): seconds since the epoch, -1 when s is no timestamp
ParseRFC3339(s) ==
    CASE s = D1Z   -> 1609459200
      [] s = D1Off -> 1609459200
      [] s = D2Z   -> 1640995200
      [] s = D2Off -> 1640995200
      [] OTHER     -> -1

\* time.Time.Format(time.RFC3339) of an instant a NumericDate carries (UTC)
FormatRFC3339(e) ==
    CASE e = 1609459200 -> D1Z
      [] e = 1640995200 -> D2Z
      [] OTHER          -> "1970-01-01T00:00:00Z"

\* Token.Set of a NumericDate claim (exp, iat, nbf) to a string: the claim
\* accepts a timestamp and keeps its instant; anything else is an error
SetDateOK(s) == ParseRFC3339(s) >= 0
DateClaim(s) == TimeV(ParseRFC3339(s))

\* Token.Set of the iss claim: the value must be a string
SetIssuerOK(v) == v.k = "str"

----------------------------------------------------------------------------
(* jwx.Signer, jwx.Verifier and the compact token *)

\* jwx.Signer{ID, KID, ALG, PrivateKey}
Signers ==
    {[ID |-> "did:holder", KID |-> "did:holder#k1", ALG |-> "Ed25519", PrivateKey |-> "key1"],
     [ID |-> "did:holder", KID |-> "", ALG |-> "ES256K", PrivateKey |-> "nokey"]}

\* jwx.Verifier{ID, KID, publicKey}
Verifiers ==
    {[ID |-> "did:verifier", KID |-> "did:verifier#k1", key |-> "key1"],
     [ID |-> "did:verifier", KID |-> "did:verifier#k1", key |-> "key2"]}

\* no token: a nil []byte, or a string that is no JWT
NoToken == [wf |-> FALSE, kid |-> "", alg |-> "", payload |-> NewToken, key |-> ""]

\* a NumericDate claim on the wire is a JSON number of seconds
WireDate(v) == IF v.k = "time" THEN NumV(v.n) ELSE v
\* jwt.Parse reads a NumericDate claim's number back as a time.Time
ReadDate(v) == IF v.k = "num" THEN TimeV(v.n) ELSE v

\* json.Marshal of the claim set, as jwt.Sign does it
MarshalClaims(t) ==
    [t EXCEPT !.exp = WireDate(t.exp), !.iat = WireDate(t.iat), !.nbf = WireDate(t.nbf)]

\* the claim set jwt.Parse returns for a payload
UnmarshalClaims(p) ==
    [p EXCEPT !.exp = ReadDate(p.exp), !.iat = ReadDate(p.iat), !.nbf = ReadDate(p.nbf)]

\* jwt.Sign(t, jwt.WithKey(alg, signer.PrivateKey, WithProtectedHeaders(hdrs))):
\* fails when the key cannot sign
JwtSignOK(signer) == signer.PrivateKey # "nokey"
JwtSign(t, alg, signer, kid) ==
    [wf |-> TRUE, kid |-> kid, alg |-> alg, payload |-> MarshalClaims(t),
     key |-> signer.PrivateKey]

\* Verifier.Verify(token): the signature is the verifier's key's
VerifierVerify(verifier, token) == token.wf /\ token.key = verifier.key

\* the algorithm name handed to jwt.Sign
SignatureAlg(signer) == IF signer.ALG = "Ed25519" THEN "EdDSA" ELSE signer.ALG

----------------------------------------------------------------------------
(* JWTClaimSetFromVC, step by step: s is [err, t, cred], cred the callee's   *)
(* copy of the struct, whose CredentialSubject is the caller's map          *)

SetExp(s) ==
    IF s.err # "" \/ s.cred.ExpirationDate = "" THEN s
    ELSE IF ~SetDateOK(s.cred.ExpirationDate)
         THEN [s EXCEPT !.err = "setting exp value"]
         ELSE [s EXCEPT !.t.exp = DateClaim(s.cred.ExpirationDate),
                        !.cred.ExpirationDate = ""]

\* SetNonce with one value for every claim set instead of uuid.New()
SetNonceFixed(s, nonce) ==
    IF s.err # "" THEN s ELSE [s EXCEPT !.t.nonce = StrV(UUID(0)), !.drew = TRUE]

\* nonce is what uuid.New().String() returns to this call (line 72)
SetNonce(s, nonce) ==
    IF s.err # "" THEN s ELSE [s EXCEPT !.t.nonce = StrV(nonce), !.drew = TRUE]

SetIss(s) ==
    IF s.err # "" THEN s
    ELSE IF ~SetIssuerOK(s.cred.Issuer)
         THEN [s EXCEPT !.err = "setting exp value"]
         ELSE [s EXCEPT !.t.iss = s.cred.Issuer, !.cred.Issuer = NilV]

SetIatNbf(s) ==
    IF s.err # "" THEN s
    ELSE IF ~SetDateOK(s.cred.IssuanceDate)
         THEN [s EXCEPT !.err = "setting iat value"]
    ELSE IF ~SetDateOK(s.cred.IssuanceDate)
         THEN [s EXCEPT !.err = "setting nbf value"]
         ELSE [s EXCEPT !.t.iat = DateClaim(s.cred.IssuanceDate),
                        !.t.nbf = DateClaim(s.cred.IssuanceDate),
                        !.cred.IssuanceDate = ""]

\* SetJti leaving the id in the credential
SetJtiKept(s) ==
    IF s.err # "" \/ s.cred.ID = "" THEN s
    ELSE [s EXCEPT !.t.jti = StrV(s.cred.ID)]

SetJti(s) ==
    IF s.err # "" \/ s.cred.ID = "" THEN s
    ELSE [s EXCEPT !.t.jti = StrV(s.cred.ID), !.cred.ID = ""]

\* SetSub with the claim assignment lost: the "id" entry is removed from the
\* subject, and no sub claim carries it
SetSubDropped(s) ==
    IF s.err # "" \/ GetID(s.cred.CredentialSubject) = "" THEN s
    ELSE [s EXCEPT !.cred.CredentialSubject =
                       MapDelete(s.cred.CredentialSubject, VerifiableCredentialIDProperty)]

SetSub(s) ==
    IF s.err # "" \/ GetID(s.cred.CredentialSubject) = "" THEN s
    ELSE [s EXCEPT !.t.sub = StrV(GetID(s.cred.CredentialSubject)),
                   !.cred.CredentialSubject =
                       MapDelete(s.cred.CredentialSubject, VerifiableCredentialIDProperty)]

SetVCClaim(s) ==
    IF s.err # "" THEN s
    ELSE [s EXCEPT !.t.vc = [set |-> TRUE, c |-> s.cred, shape |-> "object"]]

\* JWTClaimSetFromVC(cred): [err, t, cred, drew]; t is nil (NewToken) on an
\* error; cred.CredentialSubject is the caller's map as the call leaves it;
\* drew: the call reached uuid.New()
JWTClaimSetFromVC(c, nonce) ==
    LET s == SetVCClaim(SetSub(SetJti(SetIatNbf(SetIss(
                 SetNonce(SetExp([err |-> "", t |-> NewToken, cred |-> c,
                                  drew |-> FALSE]), nonce))))))
    IN  IF s.err # "" THEN [s EXCEPT !.t = NewToken] ELSE s

\* CredentialPrecondition without the proof check
CredentialPreconditionNoProof(c) ==
    IF CredIsEmpty(c) THEN "credential cannot be empty" ELSE ""

\* the checks before any claim is built (lines 29-34): the error, "" when none
CredentialPrecondition(c) ==
    IF CredIsEmpty(c) THEN "credential cannot be empty"
    ELSE IF c.Proof THEN "credential cannot already have a proof"
    ELSE ""

\* SignVerifiableCredentialJWT(signer, cred):
\* [err, token, t (the claim set built), signed (the Signer was invoked),
\*  subject (the caller's map as the call leaves it), drew (uuid.New() ran)]
SignVerifiableCredentialJWT(signer, c, nonce) ==
    LET fail(e, cs, inv, t, d) == [err |-> e, token |-> NoToken, t |-> t,
                                   signed |-> inv, subject |-> cs, drew |-> d]
    IN  IF CredentialPrecondition(c) # ""
        THEN fail(CredentialPrecondition(c), c.CredentialSubject, FALSE, NewToken, FALSE)
        ELSE LET r == JWTClaimSetFromVC(c, nonce) IN
             IF r.err # ""
             THEN fail(r.err, r.cred.CredentialSubject, FALSE, NewToken, r.drew)
             ELSE IF ~JwtSignOK(signer)
                  THEN fail("signing JWT credential", r.cred.CredentialSubject, TRUE,
                            r.t, r.drew)
                  ELSE [err |-> "",
                        token |-> JwtSign(r.t, SignatureAlg(signer), signer, signer.KID),
                        t |-> r.t, signed |-> TRUE,
                        subject |-> r.cred.CredentialSubject, drew |-> r.drew]

----------------------------------------------------------------------------
(* Decoding a credential *)

\* json.Marshal of the vc claim, then json.Unmarshal into a VerifiableCredential
UnmarshalCredential(vcClaim) == vcClaim.c

\* UnmarshalCredentialOK taking every JSON value for a credential
UnmarshalCredentialOKAny(vcClaim) == TRUE

\* json.Unmarshal into the struct succeeds for an object whose members fit it
UnmarshalCredentialOK(vcClaim) == vcClaim.shape = "object"

\* StringClaim that takes the empty string too
StringClaimAllowEmpty(v) == v.k = "str"

\* `v, has := token.Get(key); str, ok := v.(string); has && ok && str != ""`
StringClaim(v) == v.k = "str" /\ v.s # ""

\* ParseVerifiableCredentialFromToken(token): [err, ok, cred]
ParseVerifiableCredentialFromToken(token) ==
    IF ~token.vc.set
    THEN [err |-> "did not find vc property in token", ok |-> FALSE, cred |-> EmptyCred]
    ELSE IF ~UnmarshalCredentialOK(token.vc)
    THEN [err |-> "reconstructing Verifiable Credential", ok |-> FALSE,
          cred |-> EmptyCred]
    ELSE
    LET c0 == UnmarshalCredential(token.vc)
        c1 == IF StringClaim(token.jti)
              THEN [c0 EXCEPT !.ID = token.jti.s] ELSE c0
        c2 == IF token.iat.k = "time"
              THEN [c1 EXCEPT !.IssuanceDate = FormatRFC3339(token.iat.n)] ELSE c1
        c3 == IF token.exp.k = "time"
              THEN [c2 EXCEPT !.ExpirationDate = FormatRFC3339(token.exp.n)] ELSE c2
        c4 == IF StringClaim(token.iss)
              THEN [c3 EXCEPT !.Issuer = StrV(token.iss.s)] ELSE c3
        c5 == IF StringClaim(token.sub)
              THEN [c4 EXCEPT !.CredentialSubject =
                        MapPut(IF c4.CredentialSubject.nil THEN MapOf(<<>>)
                               ELSE c4.CredentialSubject,
                               VerifiableCredentialIDProperty, token.sub.s)]
              ELSE c4
    IN  [err |-> "", ok |-> TRUE, cred |-> c5]

\* what a failed verify or parse returns: nil, nil, nil, err
NoHeaders == [set |-> FALSE, kid |-> "", alg |-> ""]
VCFailure(e) ==
    [err |-> e, headers |-> NoHeaders, token |-> NewToken, hasToken |-> FALSE,
     cred |-> EmptyCred, hasCred |-> FALSE, parsed |-> FALSE]

\* ParseVerifiableCredentialFromJWT(token)
ParseVerifiableCredentialFromJWT(token) ==
    IF ~token.wf THEN VCFailure("parsing credential token")
    ELSE LET parsed == UnmarshalClaims(token.payload)
             r == ParseVerifiableCredentialFromToken(parsed)
         IN  IF ~r.ok
             THEN [VCFailure("parsing credential from token") EXCEPT !.parsed = TRUE]
             ELSE [err |-> "",
                   headers |-> [set |-> TRUE, kid |-> token.kid, alg |-> token.alg],
                   token |-> parsed, hasToken |-> TRUE,
                   cred |-> r.cred, hasCred |-> TRUE, parsed |-> TRUE]

\* VerifyVerifiableCredentialJWT parsing whatever the Verifier said
VerifyVerifiableCredentialJWTUnverified(verifier, token) ==
    ParseVerifiableCredentialFromJWT(token)

\* VerifyVerifiableCredentialJWT(verifier, token)
VerifyVerifiableCredentialJWT(verifier, token) ==
    IF ~VerifierVerify(verifier, token) THEN VCFailure("verifying JWT")
    ELSE ParseVerifiableCredentialFromJWT(token)

----------------------------------------------------------------------------
(* Signing a presentation *)

\* time.Now().Unix() at the signing call
Now == 1700000000

\* *JWTVVPParameters: nil, or {Audience, Expiration}
NoParameters == [nil |-> TRUE, Audience |-> NoAud, Expiration |-> 0]
Parameters(aud, exp) == [nil |-> FALSE, Audience |-> aud, Expiration |-> exp]
Aud(l) == [set |-> TRUE, v |-> l]
ParameterSets ==
    {NoParameters,
     Parameters(NoAud, 1800000000),
     Parameters(Aud(<<>>), 0),
     Parameters(Aud(<<"did:verifier">>), 0),
     Parameters(Aud(<<"did:else", "did:verifier#k1">>), 1800000000),
     Parameters(Aud(<<"did:else">>), 0)}

\* what SignVerifiablePresentationJWT returns on an error met before uuid.New()
VPSignFailure(e, inv) ==
    [err |-> e, token |-> NoToken, t |-> NewToken, signed |-> inv, drew |-> FALSE]

\* the claims set before the presentation's own fields are mapped (lines 222-249)
PresentationParameterClaims(parameters, nonce) ==
    LET t1 == IF ~parameters.nil /\ parameters.Audience.set
              THEN [NewToken EXCEPT !.aud = parameters.Audience] ELSE NewToken
        t2 == [t1 EXCEPT !.iat = TimeV(Now), !.nbf = TimeV(Now), !.nonce = StrV(nonce)]
    IN  IF ~parameters.nil /\ parameters.Expiration > 0
        THEN [t2 EXCEPT !.exp = TimeV(parameters.Expiration)] ELSE t2

\* MapPresentationID with the claim assignment lost: the id is removed from
\* the presentation, and no jti claim carries it
MapPresentationIDDropped(s) ==
    IF s.presentation.ID = "" THEN s
    ELSE [s EXCEPT !.presentation.ID = ""]

\* presentation.ID -> jti (lines 252-258): [t, presentation]
MapPresentationID(s) ==
    IF s.presentation.ID = "" THEN s
    ELSE [s EXCEPT !.t.jti = StrV(s.presentation.ID), !.presentation.ID = ""]

\* HolderMismatch with the comparison lost
HolderMismatchNever(holder, signer) == FALSE

\* the holder must be the signer (line 260)
HolderMismatch(holder, signer) == holder # signer.ID

\* presentation.Holder -> iss (lines 259-268): [err, t, presentation]
MapPresentationHolder(s, signer) ==
    IF s.presentation.Holder = "" THEN s
    ELSE IF HolderMismatch(s.presentation.Holder, signer)
         THEN [s EXCEPT !.err = "holder must be the same as the signer"]
         ELSE [s EXCEPT !.t.iss = StrV(s.presentation.Holder),
                        !.presentation.Holder = ""]

\* the checks before any claim is built (lines 215-220): the error, "" when none
PresentationPrecondition(p) ==
    IF PresIsEmpty(p) THEN "presentation cannot be empty"
    ELSE IF p.Proof THEN "presentation cannot have a proof"
    ELSE ""

\* SignVerifiablePresentationJWT(signer, parameters, presentation):
\* [err, token, t (the claim set built), signed (the Signer was invoked),
\*  drew (uuid.New() ran, line 241)]
SignVerifiablePresentationJWT(signer, parameters, presentation, nonce) ==
    IF PresentationPrecondition(presentation) # ""
    THEN VPSignFailure(PresentationPrecondition(presentation), FALSE)
    ELSE
    LET s0 == [err |-> "", t |-> PresentationParameterClaims(parameters, nonce),
               presentation |-> presentation]
        s1 == MapPresentationHolder(MapPresentationID(s0), signer)
        t  == [s1.t EXCEPT !.vp = [set |-> TRUE, p |-> s1.presentation, shape |-> "object"]]
    IN  IF s1.err # "" THEN [VPSignFailure(s1.err, FALSE) EXCEPT !.drew = TRUE]
        ELSE IF ~JwtSignOK(signer)
             THEN [VPSignFailure("signing JWT presentation", TRUE)
                       EXCEPT !.t = t, !.drew = TRUE]
             ELSE [err |-> "",
                   token |-> JwtSign(t, SignatureAlg(signer), signer, signer.KID),
                   t |-> t, signed |-> TRUE, drew |-> TRUE]

----------------------------------------------------------------------------
(* Decoding a presentation *)

\* json.Marshal of the vp claim, then json.Unmarshal into a VerifiablePresentation
UnmarshalPresentation(vpClaim) == vpClaim.p
UnmarshalPresentationOK(vpClaim) == vpClaim.shape = "object"

\* VPParseFailure handing back a presentation along with the error
VPParseFailurePartial(e) ==
    [err |-> e, headers |-> NoHeaders, token |-> NewToken, hasToken |-> FALSE,
     pres |-> EmptyPres, hasPres |-> TRUE]

\* what ParseVerifiablePresentationFromJWT returns on an error: nil, nil, nil, err
VPParseFailure(e) ==
    [err |-> e, headers |-> NoHeaders, token |-> NewToken, hasToken |-> FALSE,
     pres |-> EmptyPres, hasPres |-> FALSE]

\* ParseVerifiablePresentationFromJWT(token): [err, headers, token, pres]
ParseVerifiablePresentationFromJWT(token) ==
    IF ~token.wf THEN VPParseFailure("parsing vp token")
    ELSE
    LET parsed == UnmarshalClaims(token.payload) IN
    IF ~parsed.vp.set THEN VPParseFailure("did not find vp property in token")
    ELSE IF ~UnmarshalPresentationOK(parsed.vp)
    THEN VPParseFailure("reconstructing Verifiable Presentation")
    ELSE IF parsed.iss.k = "absent" THEN VPParseFailure("did not find iss property in token")
    ELSE IF parsed.iss.k # "str" THEN VPParseFailure("issuer property is not a string")
    ELSE
    LET p0 == [UnmarshalPresentation(parsed.vp) EXCEPT !.Holder = parsed.iss.s]
        p1 == IF StringClaim(parsed.jti)
              THEN [p0 EXCEPT !.ID = parsed.jti.s] ELSE p0
    IN  [err |-> "",
         headers |-> [set |-> TRUE, kid |-> token.kid, alg |-> token.alg],
         token |-> parsed, hasToken |-> TRUE, pres |-> p1, hasPres |-> TRUE]

----------------------------------------------------------------------------
(* VerifyVerifiablePresentationJWT, one step per call it makes *)

\* resolution.Resolver argument: nil, one that resolves, one whose resolution fails
Resolvers == {"nil", "resolves", "fails"}

\* VerifyCredentialSignature(ctx, cred, r): (verified, err)
VerifyCredentialSignature(c, r) ==
    IF r = "fails" THEN [verified |-> FALSE, err |-> "resolving issuer"]
    ELSE IF c = "vcBad" THEN [verified |-> FALSE, err |-> ""]
    ELSE [verified |-> TRUE, err |-> ""]

\* AudienceMatches comparing the verifier's identity only, not its key-id
AudienceMatchesIDOnly(audience, verifier) ==
    Len(audience) = 0
    \/ \E j \in 1..Len(audience) : audience[j] = verifier.ID

\* the audience check (lines 314-325): TRUE when the call goes on
AudienceMatches(audience, verifier) ==
    Len(audience) = 0
    \/ \E j \in 1..Len(audience) : audience[j] = verifier.ID \/ audience[j] = verifier.KID

\* a call not yet made
NoReturn == [returned |-> FALSE, err |-> "", headers |-> NoHeaders,
             hasToken |-> FALSE, hasPres |-> FALSE, pres |-> EmptyPres]
VVIdle ==
    [pc |-> "idle", verifier |-> CHOOSE v \in Verifiers : TRUE, r |-> "nil",
     token |-> NoToken, headers |-> NoHeaders, vpToken |-> NewToken,
     vp |-> EmptyPres, i |-> 0, failed |-> -1, trace |-> <<>>, ret |-> NoReturn]

\* ReturnError handing back what the call had parsed so far
ReturnErrorPartial(v, e) ==
    [v EXCEPT !.pc = "Failed",
              !.ret = [returned |-> TRUE, err |-> e, headers |-> v.headers,
                       hasToken |-> v.headers.set, hasPres |-> v.headers.set,
                       pres |-> v.vp]]

\* return nil, nil, nil, err
ReturnError(v, e) ==
    [v EXCEPT !.pc = "Failed",
              !.ret = [returned |-> TRUE, err |-> e, headers |-> NoHeaders,
                       hasToken |-> FALSE, hasPres |-> FALSE, pres |-> EmptyPres]]

\* return headers, vpToken, vp, nil
ReturnVerified(v) ==
    [v EXCEPT !.pc = "Verified",
              !.ret = [returned |-> TRUE, err |-> "", headers |-> v.headers,
                       hasToken |-> TRUE, hasPres |-> TRUE, pres |-> v.vp]]

\* CheckResolver placed after the signature check
CheckResolverLate(v) ==
    IF v.r # "nil" THEN [v EXCEPT !.pc = "SignatureUnchecked"]
    ELSE LET w == [v EXCEPT !.trace = Append(v.trace, [op |-> "Verify", i |-> -1])]
         IN  IF ~VerifierVerify(v.verifier, v.token)
             THEN ReturnError(w, "verifying JWT and its signature")
             ELSE ReturnError(w, "r cannot be empty")

\* lines 298-300
CheckResolver(v) ==
    IF v.r = "nil" THEN ReturnError(v, "r cannot be empty")
    ELSE [v EXCEPT !.pc = "SignatureUnchecked"]

\* CheckSignature going on whatever the Verifier said
CheckSignatureIgnored(v) ==
    [v EXCEPT !.pc = "SignatureValid",
              !.trace = Append(v.trace, [op |-> "Verify", i |-> -1])]

\* lines 303-305
CheckSignature(v) ==
    LET w == [v EXCEPT !.trace = Append(v.trace, [op |-> "Verify", i |-> -1])]
    IN  IF ~VerifierVerify(v.verifier, v.token)
        THEN ReturnError(w, "verifying JWT and its signature")
        ELSE [w EXCEPT !.pc = "SignatureValid"]

\* lines 308-311
ParseClaims(v) ==
    LET w == [v EXCEPT !.trace = Append(v.trace, [op |-> "Parse", i |-> -1])]
        p == ParseVerifiablePresentationFromJWT(v.token)
    IN  IF p.err # "" THEN ReturnError(w, "parsing VP from JWT")
        ELSE [w EXCEPT !.pc = "ClaimsParsed", !.headers = p.headers,
                       !.vpToken = p.token, !.vp = p.pres]

\* lines 314-325
CheckAudience(v) ==
    LET w == [v EXCEPT !.trace = Append(v.trace, [op |-> "Audience", i |-> -1])]
    IN  IF ~AudienceMatches(v.vpToken.aud.v, v.verifier)
        THEN ReturnError(w, "audience mismatch")
        ELSE [w EXCEPT !.pc = "AudienceChecked"]

\* the range loop's next iteration, or its end (lines 328, 341)
NextCredential(v, i) ==
    IF i < Len(v.vp.VerifiableCredential)
    THEN [v EXCEPT !.pc = "VerifyingCredential", !.i = i]
    ELSE ReturnVerified([v EXCEPT !.i = i])

\* CredentialFailure reporting the index counted from one
CredentialFailureFromOne(v, i, e) == [ReturnError(v, e) EXCEPT !.failed = i + 1]

\* a credential's failure: the index is in the error (lines 333, 336)
CredentialFailure(v, i, e) == [ReturnError(v, e) EXCEPT !.failed = i]

\* the loop body for index i (lines 329-337)
CheckCredential(v) ==
    LET w == [v EXCEPT !.trace = Append(v.trace, [op |-> "Credential", i |-> v.i])]
        o == VerifyCredentialSignature(v.vp.VerifiableCredential[v.i + 1], v.r)
    IN  IF o.err # "" THEN CredentialFailure(w, v.i, "verifying credential")
        ELSE IF ~o.verified
             THEN CredentialFailure(w, v.i, "credential failed signature validation")
             ELSE NextCredential(w, v.i + 1)

----------------------------------------------------------------------------
(* example/wallet.go: the SimpleWallet *)

\* the goroutines that share one wallet
Goroutines == {"g1", "g2"}

\* arguments of the wallet's methods
DIDs     == {"did:a", "did:b"}
KIDs     == {"k1", "k2"}
Keys     == {"priv1"}
CredIDs  == {"cred1"}
CredJWTs == {"jwt1", "jwt2"}

\* a Go map with string keys: a function on the keys present
MapSet(m, k, v) == [x \in DOMAIN m \cup {k} |-> IF x = k THEN v ELSE m[x]]

\* NewSimpleWallet(): two empty maps and a mutex
NewSimpleWallet == [vcs |-> <<>>, dids |-> <<>>, mux |-> "free"]

\* `var wallet SimpleWallet`: the zero value, nil maps and a nil mux (a nil
\* map reads as an empty one)
ZeroWallet == [vcs |-> <<>>, dids |-> <<>>, mux |-> "nil"]

\* what wallet.json may hold: the "vcs" and "dids" a wallet was saved with
WalletFiles ==
    {[vcs |-> <<>>, dids |-> <<>>],
     [vcs |-> [c \in {"cred1"} |-> "jwt1"],
      dids |-> [d \in {"did:a"} |-> <<[ID |-> "k1", Key |-> "priv1"]>>]]}

\* s.UnmarshalJSON(data): the two maps are set from the JSON, mux is left as
\* it was
UnmarshalJSON(s, data) == [s EXCEPT !.vcs = data.vcs, !.dids = data.dids]

\* LoadSimpleWallet(): decoder.Decode(&wallet) into a zero SimpleWallet
LoadSimpleWallet(file) == UnmarshalJSON(ZeroWallet, file)

\* a wallet call: the method and its arguments (id is the DID of AddDID,
\* AddPrivateKey and GetKeysForDID, the credID of AddCredentialJWT; val is the
\* private key of AddPrivateKey, the credential of AddCredentialJWT)
WalletCall(op, id, kid, val) == [op |-> op, id |-> id, kid |-> kid, val |-> val]
Calls ==
    {WalletCall("AddDID", d, "", "") : d \in DIDs}
    \cup {WalletCall("GetDIDs", "", "", "")}
    \cup {WalletCall("AddPrivateKey", d, k, p) : d \in DIDs, k \in KIDs, p \in Keys}
    \cup {WalletCall("GetKey", "", k, "") : k \in KIDs}
    \cup {WalletCall("GetKeysForDID", d, "", "") : d \in DIDs}
    \cup {WalletCall("AddCredentialJWT", c, "", j) : c \in CredIDs, j \in CredJWTs}
    \cup {WalletCall("Size", "", "", ""), WalletCall("MarshalJSON", "", "", ""),
          WalletCall("SaveToFile", "", "", "")}

\* the methods that take the mutex before they touch the maps
Locking == {"AddDID", "GetDIDs", "AddPrivateKey", "GetKey", "GetKeysForDID",
            "AddCredentialJWT"}

\* a goroutine: pc is where it is ("idle": in no call; "lock": at
\* s.mux.Lock(); "cs": past Lock, before the deferred Unlock; "range": in
\* SaveToFile's loop over s.dids; "read": at the maps' read of Size or
\* MarshalJSON), call the call it is in, ret how its last call returned
\* ("": none yet, "ok": err == nil, an error's message without its argument,
\* "race": its unsynchronised read overlapped a write, the outcome is
\* undefined)
NoCall == WalletCall("", "", "", "")
Idle == [pc |-> "idle", call |-> NoCall, ret |-> ""]
Returned(t, ret) == [pc |-> "idle", call |-> NoCall, ret |-> ret]

\* KeyExists finding no key
KeyExistsNever(keys, kid) == FALSE

\* `for _, k := range walletKeys { if k.ID == kid ...`
KeyExists(keys, kid) == \E i \in DOMAIN keys : keys[i].ID = kid

\* goroutine h is between Lock and Unlock of a call that will write `map`
Writing(h, map) ==
    /\ th[h].pc = "cs"
    /\ LET c == th[h].call IN
       \/ map = "vcs" /\ c.op = "AddCredentialJWT" /\ c.id \notin DOMAIN vcs
       \/ map = "dids" /\ c.op = "AddDID" /\ c.id \notin DOMAIN dids
       \/ map = "dids" /\ c.op = "AddPrivateKey" /\ c.id \in DOMAIN dids
            /\ ~KeyExists(dids[c.id], c.kid)

\* what a read of `maps` by g outside the mutex can come to: a data race when
\* another goroutine is writing one of them
UnlockedRead(g, maps) ==
    IF \E h \in Goroutines \ {g}, m \in maps : Writing(h, m)
    THEN {"ok", "race"} ELSE {"ok"}

----------------------------------------------------------------------------
(* The caller *)

NoVCSign ==
    [called |-> FALSE, cred |-> EmptyCred, signer |-> CHOOSE x \in Signers : TRUE,
     err |-> "", token |-> NoToken, t |-> NewToken, signed |-> FALSE]
NoVCVerify ==
    [called |-> FALSE, verifier |-> CHOOSE v \in Verifiers : TRUE, accepted |-> FALSE,
     token |-> NoToken, ret |-> VCFailure("")]
NoVPSign ==
    [called |-> FALSE, presentation |-> EmptyPres, signer |-> CHOOSE x \in Signers : TRUE,
     parameters |-> NoParameters, err |-> "", token |-> NoToken, t |-> NewToken,
     signed |-> FALSE]

\* a token some holder signed that carries no vp claim
TokenWithoutVP ==
    [wf |-> TRUE, kid |-> "did:holder#k1", alg |-> "EdDSA",
     payload |-> [NewToken EXCEPT !.iss = StrV("did:holder"), !.nonce = StrV("uuid-1")],
     key |-> "key1"]

\* the log of nonces after a signing call that built the claim set t (none
\* when the call failed before its claim set was complete)
Built(log, t) == IF t = NewToken THEN log ELSE Append(log, t.nonce)

\* credentials a vc claim's object may decode to
NestedCredentials ==
    {EmptyCred,
     [Issuer |-> StrV("did:nested-issuer"), ID |-> "urn:nested", IssuanceDate |-> D1Off,
      ExpirationDate |-> D2Off,
      CredentialSubject |-> MapOf([x \in {"id", "name"} |->
                                      IF x = "id" THEN "did:nested-subject" ELSE "Ann"]),
      Proof |-> TRUE],
     [Issuer |-> ObjV("issuer-object"), ID |-> "", IssuanceDate |-> "",
      ExpirationDate |-> "", CredentialSubject |-> MapOf([x \in {"name"} |-> "Ann"]),
      Proof |-> FALSE]}

\* presentations a vp claim's object may decode to
NestedPresentations ==
    {EmptyPres,
     [Holder |-> "did:nested-holder", ID |-> "urn:nested-vp",
      VerifiableCredential |-> <<"vcA">>, Proof |-> FALSE]}

\* the vc and vp claims of a received claim set: neither, a vc, or a vp
PayloadClaims ==
    {<<NoVC, NoVP>>}
    \cup {<<[set |-> TRUE, c |-> c, shape |-> "object"], NoVP>> : c \in NestedCredentials}
    \cup {<<[set |-> TRUE, c |-> EmptyCred, shape |-> x], NoVP>> : x \in {"string", "mistyped"}}
    \cup {<<NoVC, [set |-> TRUE, p |-> q, shape |-> "object"]>> : q \in NestedPresentations}
    \cup {<<NoVC, [set |-> TRUE, p |-> EmptyPres, shape |-> "string"]>>}

\* the claim sets a caller may have received: every claim absent, or present
\* with the expected type or with another
ClaimSets ==
    {[NewToken EXCEPT !.vc = pl[1], !.vp = pl[2], !.jti = jti, !.iat = iat,
                      !.exp = exp, !.iss = iss, !.sub = sub] :
        pl \in PayloadClaims,
        jti \in {Absent, StrV(""), StrV("urn:uuid:claim"), NumV(7)},
        iat \in {Absent, TimeV(ParseRFC3339(D1Z)), StrV(D1Z)},
        exp \in {Absent, TimeV(ParseRFC3339(D2Z))},
        iss \in {Absent, StrV(""), StrV("did:claim-issuer"), ObjV("issuer-object")},
        sub \in {Absent, StrV(""), StrV("did:claim-subject"), NumV(7)}}

NoVCParse == [called |-> FALSE, err |-> "", ok |-> FALSE, cred |-> EmptyCred]
NoVPParse == [called |-> FALSE, ret |-> VPParseFailure("")]

\* the compact token someone signed over a claim set
TokenOf(t) ==
    [wf |-> TRUE, kid |-> "did:holder#k1", alg |-> "EdDSA",
     payload |-> MarshalClaims(t), key |-> "key1"]

Init ==
    /\ kind \in {"vc", "vp", "tok"}
    /\ cred \in IF kind = "vc" THEN Credentials ELSE {EmptyCred}
    /\ pres \in IF kind = "vp" THEN Presentations ELSE {EmptyPres}
    /\ claims \in IF kind = "tok" THEN ClaimSets ELSE {NewToken}
    /\ vcParse = NoVCParse
    /\ vpParse = NoVPParse
    /\ vcSign = NoVCSign
    /\ vcPrev = NoVCSign
    /\ vcVerify = NoVCVerify
    /\ vpSign = NoVPSign
    /\ vv = VVIdle
    /\ uuids = 0
    /\ nonces = <<>>
    /\ vcs = NewSimpleWallet.vcs
    /\ dids = NewSimpleWallet.dids
    /\ mux = NewSimpleWallet.mux
    /\ th = [g \in Goroutines |-> Idle]

\* the caller signs its credential
SignVC ==
    /\ kind = "vc"
    /\ uuids < MaxUUIDs
    /\ \E signer \in Signers :
         LET r == SignVerifiableCredentialJWT(signer, cred, UUID(uuids + 1)) IN
         /\ vcSign' = [called |-> TRUE, cred |-> cred, signer |-> signer,
                       err |-> r.err, token |-> r.token, t |-> r.t, signed |-> r.signed]
         /\ vcPrev' = vcSign
         /\ cred' = [cred EXCEPT !.CredentialSubject = r.subject]
         /\ uuids' = IF r.drew THEN uuids + 1 ELSE uuids
         /\ nonces' = Built(nonces, r.t)
    /\ UNCHANGED <<kind, pres, vcVerify, vpSign, vv, claims, vcParse, vpParse, walletVars>>

\* the caller verifies the token of its latest signing call
VerifyVC ==
    /\ kind = "vc"
    /\ vcSign.called
    /\ \E verifier \in Verifiers :
         vcVerify' = [called |-> TRUE, verifier |-> verifier,
                      accepted |-> VerifierVerify(verifier, vcSign.token),
                      token |-> vcSign.token,
                      ret |-> VerifyVerifiableCredentialJWT(verifier, vcSign.token)]
    /\ UNCHANGED <<kind, cred, pres, vcSign, vcPrev, vpSign, vv, uuids, nonces, claims, vcParse, vpParse, walletVars>>

\* the caller signs its presentation
SignVP ==
    /\ kind = "vp"
    /\ vv.pc = "idle"
    /\ uuids < MaxUUIDs
    /\ \E signer \in Signers, parameters \in ParameterSets :
         LET r == SignVerifiablePresentationJWT(signer, parameters, pres,
                                                UUID(uuids + 1)) IN
         /\ vpSign' = [called |-> TRUE, presentation |-> pres, signer |-> signer,
                       parameters |-> parameters, err |-> r.err, token |-> r.token,
                       t |-> r.t, signed |-> r.signed]
         /\ uuids' = IF r.drew THEN uuids + 1 ELSE uuids
         /\ nonces' = Built(nonces, r.t)
    /\ UNCHANGED <<kind, cred, pres, vcSign, vcPrev, vcVerify, vv, claims, vcParse, vpParse, walletVars>>

\* the tokens a verifier may be handed: the one the holder signed, or, from
\* someone who signed nothing here, a token without a vp claim or no JWT at all
TokensToVerify == IF vpSign.called THEN {vpSign.token} ELSE {TokenWithoutVP, NoToken}

\* a verifier is handed a token and calls VerifyVerifiablePresentationJWT
VerifyVPCall ==
    /\ kind = "vp"
    /\ vv.pc = "idle"
    /\ \E verifier \in Verifiers, r \in Resolvers, token \in TokensToVerify :
         vv' = CheckResolver([VVIdle EXCEPT !.verifier = verifier, !.r = r, !.token = token])
    /\ UNCHANGED <<kind, cred, pres, vcSign, vcPrev, vcVerify, vpSign, uuids, nonces, claims, vcParse, vpParse, walletVars>>

VerifyVPSignature ==
    /\ vv.pc = "SignatureUnchecked"
    /\ vv' = CheckSignature(vv)
    /\ UNCHANGED <<kind, cred, pres, vcSign, vcPrev, vcVerify, vpSign, uuids, nonces, claims, vcParse, vpParse, walletVars>>

VerifyVPParse ==
    /\ vv.pc = "SignatureValid"
    /\ vv' = ParseClaims(vv)
    /\ UNCHANGED <<kind, cred, pres, vcSign, vcPrev, vcVerify, vpSign, uuids, nonces, claims, vcParse, vpParse, walletVars>>

VerifyVPAudience ==
    /\ vv.pc = "ClaimsParsed"
    /\ vv' = CheckAudience(vv)
    /\ UNCHANGED <<kind, cred, pres, vcSign, vcPrev, vcVerify, vpSign, uuids, nonces, claims, vcParse, vpParse, walletVars>>

VerifyVPRange ==
    /\ vv.pc = "AudienceChecked"
    /\ vv' = NextCredential(vv, 0)
    /\ UNCHANGED <<kind, cred, pres, vcSign, vcPrev, vcVerify, vpSign, uuids, nonces, claims, vcParse, vpParse, walletVars>>

VerifyVPCredential ==
    /\ vv.pc = "VerifyingCredential"
    /\ vv' = CheckCredential(vv)
    /\ UNCHANGED <<kind, cred, pres, vcSign, vcPrev, vcVerify, vpSign, uuids, nonces, claims, vcParse, vpParse, walletVars>>

\* the caller decodes a credential from its claim set
ParseVCToken ==
    /\ kind = "tok"
    /\ ~vcParse.called
    /\ LET r == ParseVerifiableCredentialFromToken(claims) IN
         vcParse' = [called |-> TRUE, err |-> r.err, ok |-> r.ok, cred |-> r.cred]
    /\ UNCHANGED <<kind, cred, pres, vcSign, vcPrev, vcVerify, vpSign, vv, uuids,
                   nonces, claims, vpParse, walletVars>>

\* the caller decodes a presentation from a token over its claim set
ParseVPToken ==
    /\ kind = "tok"
    /\ ~vpParse.called
    /\ vpParse' = [called |-> TRUE,
                   ret |-> ParseVerifiablePresentationFromJWT(TokenOf(claims))]
    /\ UNCHANGED <<kind, cred, pres, vcSign, vcPrev, vcVerify, vpSign, vv, uuids,
                   nonces, claims, vcParse, walletVars>>

Next ==
    \/ ParseVCToken
    \/ ParseVPToken
    \/ SignVC
    \/ VerifyVC
    \/ SignVP
    \/ VerifyVPCall
    \/ VerifyVPSignature
    \/ VerifyVPParse
    \/ VerifyVPAudience
    \/ VerifyVPRange
    \/ VerifyVPCredential

Spec == Init /\ [][Next]_vars

----------------------------------------------------------------------------
(* The wallet's methods, called by concurrent goroutines *)

jwtVars == <<kind, cred, pres, vcSign, vcPrev, vcVerify, vpSign, vv, uuids, nonces,
             claims, vcParse, vpParse>>

\* a wallet from NewSimpleWallet, no goroutine in a call
InitWallet ==
    /\ kind = "wallet"
    /\ cred = EmptyCred /\ pres = EmptyPres /\ claims = NewToken
    /\ vcParse = NoVCParse /\ vpParse = NoVPParse
    /\ vcSign = NoVCSign /\ vcPrev = NoVCSign /\ vcVerify = NoVCVerify
    /\ vpSign = NoVPSign /\ vv = VVIdle
    /\ uuids = 0 /\ nonces = <<>>
    /\ vcs = NewSimpleWallet.vcs
    /\ dids = NewSimpleWallet.dids
    /\ mux = NewSimpleWallet.mux
    /\ th = [g \in Goroutines |-> Idle]

\* where a call starts: at Lock, or at its first read of the maps
Entry(op) == IF op \in Locking THEN "lock"
             ELSE IF op = "SaveToFile" THEN "range" ELSE "read"

\* goroutine g calls a method; AddCredentialJWT returns at once when the
\* wallet has no mutex (lines 126-128)
Call(g) ==
    /\ th[g].pc = "idle"
    /\ \E c \in Calls :
         th' = [th EXCEPT ![g] =
                   IF c.op = "AddCredentialJWT" /\ mux = "nil"
                   THEN Returned(th[g], "no mux for wallet")
                   ELSE [pc |-> Entry(c.op), call |-> c, ret |-> ""]]
    /\ UNCHANGED <<vcs, dids, mux, jwtVars>>

\* s.mux.Lock()
Lock(g) ==
    /\ th[g].pc = "lock"
    /\ mux = "free"
    /\ mux' = g
    /\ th' = [th EXCEPT ![g].pc = "cs"]
    /\ UNCHANGED <<vcs, dids, jwtVars>>

\* g is past Lock in a call of method op
In(g, op) == th[g].pc = "cs" /\ th[g].call.op = op

\* the return of a locking method: the deferred s.mux.Unlock() runs
Return(g, ret) ==
    /\ mux' = "free"
    /\ th' = [th EXCEPT ![g] = Returned(th[g], ret)]

AddDID(g) ==
    /\ In(g, "AddDID")
    /\ LET id == th[g].call.id IN
       IF id \in DOMAIN dids
       THEN Return(g, "already an entry") /\ UNCHANGED dids
       ELSE Return(g, "ok") /\ dids' = MapSet(dids, id, <<>>)
    /\ UNCHANGED <<vcs, jwtVars>>

GetDIDs(g) ==
    /\ In(g, "GetDIDs")
    /\ Return(g, "ok")
    /\ UNCHANGED <<vcs, dids, jwtVars>>

AddPrivateKey(g) ==
    /\ In(g, "AddPrivateKey")
    /\ LET c == th[g].call IN
       IF c.id \notin DOMAIN dids
       THEN Return(g, "did not found") /\ UNCHANGED dids
       ELSE IF KeyExists(dids[c.id], c.kid)
       THEN Return(g, "key already exists") /\ UNCHANGED dids
       ELSE /\ Return(g, "ok")
            /\ dids' = MapSet(dids, c.id,
                              Append(dids[c.id], [ID |-> c.kid, Key |-> c.val]))
    /\ UNCHANGED <<vcs, jwtVars>>

GetKey(g) ==
    /\ In(g, "GetKey")
    /\ IF \E d \in DOMAIN dids : KeyExists(dids[d], th[g].call.kid)
       THEN Return(g, "ok") ELSE Return(g, "key not found")
    /\ UNCHANGED <<vcs, dids, jwtVars>>

GetKeysForDID(g) ==
    /\ In(g, "GetKeysForDID")
    /\ IF th[g].call.id \in DOMAIN dids THEN Return(g, "ok")
       ELSE Return(g, "id not found")
    /\ UNCHANGED <<vcs, dids, jwtVars>>

AddCredentialJWT(g) ==
    /\ In(g, "AddCredentialJWT")
    /\ LET c == th[g].call IN
       IF c.id \in DOMAIN vcs
       THEN Return(g, "duplicate credential; could not add") /\ UNCHANGED vcs
       ELSE Return(g, "ok") /\ vcs' = MapSet(vcs, c.id, c.val)
    /\ UNCHANGED <<dids, jwtVars>>

\* return len(s.vcs): no Lock
Size(g) ==
    /\ th[g].pc = "read" /\ th[g].call.op = "Size"
    /\ \E ret \in UnlockedRead(g, {"vcs"}) :
         th' = [th EXCEPT ![g] = Returned(th[g], ret)]
    /\ UNCHANGED <<vcs, dids, mux, jwtVars>>

\* json.Marshal of s.vcs and s.dids: no Lock; SaveToFile's encoder.Encode(s)
\* calls it
MarshalJSON(g) ==
    /\ th[g].pc = "read" /\ th[g].call.op \in {"MarshalJSON", "SaveToFile"}
    /\ \E ret \in UnlockedRead(g, {"vcs", "dids"}) :
         th' = [th EXCEPT ![g] = Returned(th[g], ret)]
    /\ UNCHANGED <<vcs, dids, mux, jwtVars>>

\* SaveToFile's loop over s.dids (lines 238-243): no Lock; then it encodes
SaveToFile(g) ==
    /\ th[g].pc = "range" /\ th[g].call.op = "SaveToFile"
    /\ \E ret \in UnlockedRead(g, {"dids"}) :
         th' = [th EXCEPT ![g] = IF ret = "race" THEN Returned(th[g], ret)
                                 ELSE [th[g] EXCEPT !.pc = "read"]]
    /\ UNCHANGED <<vcs, dids, mux, jwtVars>>

NextWallet ==
    \E g \in Goroutines :
        \/ Call(g)
        \/ Lock(g)
        \/ AddDID(g)
        \/ GetDIDs(g)
        \/ AddPrivateKey(g)
        \/ GetKey(g)
        \/ GetKeysForDID(g)
        \/ AddCredentialJWT(g)
        \/ Size(g)
        \/ MarshalJSON(g)
        \/ SaveToFile(g)

SpecWallet == InitWallet /\ [][NextWallet]_vars

----------------------------------------------------------------------------
(* A wallet from either constructor *)

\* a wallet from NewSimpleWallet or from LoadSimpleWallet, no goroutine in a call
InitLoaded ==
    /\ kind = "wallet"
    /\ cred = EmptyCred /\ pres = EmptyPres /\ claims = NewToken
    /\ vcParse = NoVCParse /\ vpParse = NoVPParse
    /\ vcSign = NoVCSign /\ vcPrev = NoVCSign /\ vcVerify = NoVCVerify
    /\ vpSign = NoVPSign /\ vv = VVIdle
    /\ uuids = 0 /\ nonces = <<>>
    /\ \E w \in {NewSimpleWallet} \cup {LoadSimpleWallet(f) : f \in WalletFiles} :
         vcs = w.vcs /\ dids = w.dids /\ mux = w.mux
    /\ th = [g \in Goroutines |-> Idle]

\* s.mux.Lock() on a nil *sync.Mutex: a nil pointer dereference, the panic
\* ends the program and every goroutine with it
LockNil(g) ==
    /\ th[g].pc = "lock"
    /\ mux = "nil"
    /\ th' = [h \in Goroutines |->
                 IF h = g THEN [pc |-> "dead", call |-> th[g].call, ret |-> "panic"]
                 ELSE [th[h] EXCEPT !.pc = "dead"]]
    /\ UNCHANGED <<vcs, dids, mux, jwtVars>>

NextLoaded ==
    \/ NextWallet
    \/ \E g \in Goroutines : LockNil(g)

SpecLoaded == InitLoaded /\ [][NextLoaded]_vars

----------------------------------------------------------------------------
(* A loaded wallet's mutex *)

\* C21: on a wallet from LoadSimpleWallet / UnmarshalJSON, as on one from
\* NewSimpleWallet, the mutex is present when a method needs it: no call of
\* AddDID, GetDIDs, AddPrivateKey, GetKey, GetKeysForDID or AddCredentialJWT
\* ends on the absent mutex, by a panic or by the "no mux" error.
C21_LoadedWalletUsable ==
    \A g \in Goroutines : th[g].ret \notin {"panic", "no mux for wallet"}

----------------------------------------------------------------------------
(* Round trips *)

\* the latest verification was of the latest signed credential token, and the
\* verifier accepted it
VCRoundTrip ==
    /\ vcSign.called /\ vcSign.err = ""
    /\ vcVerify.called /\ vcVerify.token = vcSign.token /\ vcVerify.accepted

\* a timestamp in RFC 3339 UTC form, whole seconds
IsUTCForm(s) == s \in {D1Z, D2Z}

\* C1 as stated: every credential with no proof and at least one populated
\* field is signed (by a signer whose key signs), and verifying the token
\* returns issuer, id, subject id, issuanceDate and expirationDate equal to
\* the original's.
C1_RoundTripEveryCredential ==
    (vcSign.called /\ ~vcSign.cred.Proof /\ ~CredIsEmpty(vcSign.cred)
        /\ JwtSignOK(vcSign.signer))
    => /\ vcSign.err = ""
       /\ VCRoundTrip =>
            /\ vcVerify.ret.err = ""
            /\ vcVerify.ret.cred.Issuer = vcSign.cred.Issuer
            /\ vcVerify.ret.cred.ID = vcSign.cred.ID
            /\ GetID(vcVerify.ret.cred.CredentialSubject) = GetID(vcSign.cred.CredentialSubject)
            /\ vcVerify.ret.cred.IssuanceDate = vcSign.cred.IssuanceDate
            /\ vcVerify.ret.cred.ExpirationDate = vcSign.cred.ExpirationDate

\* the credentials the forward mapping accepts: a string issuer, a timestamp
\* as issuanceDate, and no expirationDate or a timestamp
Mappable(c) ==
    /\ ~c.Proof
    /\ c.Issuer.k = "str" /\ c.Issuer.s # ""
    /\ ParseRFC3339(c.IssuanceDate) >= 0
    /\ c.ExpirationDate = "" \/ ParseRFC3339(c.ExpirationDate) >= 0

\* a decoded date is the original's instant in UTC form: equal to the
\* original when that was in UTC form already
SameInstant(decoded, original) ==
    /\ ParseRFC3339(decoded) = ParseRFC3339(original)
    /\ IsUTCForm(decoded)
    /\ IsUTCForm(original) => decoded = original

\* C1 (amended): a credential with no proof, a non-empty string issuer, an
\* RFC 3339 issuanceDate and an empty or RFC 3339 expirationDate is signed,
\* and verifying the token returns the original issuer, id and subject id,
\* and dates that are the originals' instants in RFC 3339 UTC form.
C1_RoundTrip ==
    (vcSign.called /\ Mappable(vcSign.cred) /\ JwtSignOK(vcSign.signer))
    => /\ vcSign.err = ""
       /\ VCRoundTrip =>
            /\ vcVerify.ret.err = ""
            /\ vcVerify.ret.hasCred
            /\ vcVerify.ret.cred.Issuer = vcSign.cred.Issuer
            /\ vcVerify.ret.cred.ID = vcSign.cred.ID
            /\ GetID(vcVerify.ret.cred.CredentialSubject) = GetID(vcSign.cred.CredentialSubject)
            /\ SameInstant(vcVerify.ret.cred.IssuanceDate, vcSign.cred.IssuanceDate)
            /\ IF vcSign.cred.ExpirationDate = ""
               THEN vcVerify.ret.cred.ExpirationDate = ""
               ELSE SameInstant(vcVerify.ret.cred.ExpirationDate, vcSign.cred.ExpirationDate)

\* a credential with id, subject id and dates with a zone offset went round
C1_Witness ==
    /\ VCRoundTrip
    /\ vcVerify.ret.err = ""
    /\ vcSign.cred.ID = "urn:uuid:abc"
    /\ GetID(vcSign.cred.CredentialSubject) = "did:example:456"
    /\ vcSign.cred.IssuanceDate = D1Off
    /\ vcSign.cred.ExpirationDate = D2Off
    /\ vcVerify.ret.cred.IssuanceDate = D1Z

\* the call in progress verifies the token of the latest signing call, with
\* a resolver, an accepting verifier, a matching audience and valid credentials
VPRoundTrip ==
    /\ vpSign.called /\ vpSign.err = ""
    /\ vv.ret.returned /\ vv.token = vpSign.token
    /\ vv.r # "nil"
    /\ VerifierVerify(vv.verifier, vv.token)
    /\ AudienceMatches(vpSign.t.aud.v, vv.verifier)
    /\ \A j \in 1..Len(vpSign.presentation.VerifiableCredential) :
         LET o == VerifyCredentialSignature(vpSign.presentation.VerifiableCredential[j], vv.r)
         IN  o.verified /\ o.err = ""

VPPreserved ==
    /\ vv.ret.err = ""
    /\ vv.ret.hasPres
    /\ vv.ret.pres.Holder = vpSign.presentation.Holder
    /\ vv.ret.pres.ID = vpSign.presentation.ID
    /\ vv.ret.pres.VerifiableCredential = vpSign.presentation.VerifiableCredential

\* C2 as stated: every presentation the signing call accepts (holder empty
\* or the signer) verifies, and comes back with the same holder, id and
\* list of credentials.
C2_RoundTripEveryPresentation == VPRoundTrip => VPPreserved

\* C2 (amended): every presentation the signing call accepts whose holder is
\* the signer (not empty) verifies, and comes back with the same holder, id
\* and list of embedded credentials in the same order.
C2_RoundTrip ==
    (VPRoundTrip /\ vpSign.presentation.Holder # "") => VPPreserved

\* a presentation with an id and two different credentials went round
C2_Witness ==
    /\ VPRoundTrip
    /\ vv.pc = "Verified"
    /\ vpSign.presentation.ID # ""
    /\ vpSign.presentation.VerifiableCredential = <<"vcB", "vcA", "vcB">>
    /\ vv.ret.pres.VerifiableCredential = <<"vcB", "vcA", "vcB">>

----------------------------------------------------------------------------
(* Verifying a presentation *)

IsCredentialEvent(e) == e.op = "Credential"
\* the embedded credentials the call has verified so far, in the order it did
CredentialEvents(v) == SelectSeq(v.trace, IsCredentialEvent)

\* VerifyCredentialSignature accepts the credential
CredentialValid(c, r) ==
    LET o == VerifyCredentialSignature(c, r) IN o.err = "" /\ o.verified

\* C3: the embedded credentials are verified in list order, one after the
\* other from index 0; the call stops at the first index i that fails: the
\* error is about i, every index below i verified, no index above i is
\* verified or reported.
C3_FirstFailureStops ==
    LET ev   == CredentialEvents(vv)
        list == vv.vp.VerifiableCredential
    IN  /\ Len(ev) <= Len(list)
        /\ \A j \in 1..Len(ev) : ev[j].i = j - 1
        /\ \A j \in 1..(Len(ev) - 1) : CredentialValid(list[j], vv.r)
        /\ vv.failed >= 0 =>
             /\ vv.pc = "Failed"
             /\ vv.failed = Len(ev) - 1
             /\ ~CredentialValid(list[vv.failed + 1], vv.r)
             /\ vv.ret.err \in {"verifying credential",
                                "credential failed signature validation"}
        /\ (vv.pc = "Failed" /\ Len(ev) > 0) => vv.failed = Len(ev) - 1

\* three credentials, the second fails: index 1 is reported, index 2 never checked
C3_Witness ==
    /\ vv.pc = "Failed"
    /\ vv.vp.VerifiableCredential = <<"vcA", "vcBad", "vcB">>
    /\ vv.failed = 1
    /\ Len(CredentialEvents(vv)) = 2
    /\ vv.ret.err = "credential failed signature validation"

\* C4: the call returns without an error only if the resolver is present,
\* the outer signature verified, the claims parsed, the audience check passed
\* or was skipped, and every embedded credential verified; a call that
\* returns an error returns no headers, no token and no presentation.
C4_NoPartialSuccess ==
    /\ (vv.pc \in {"Verified", "Failed"}) <=> vv.ret.returned
    /\ (vv.ret.returned /\ vv.ret.err = "") =>
         /\ vv.pc = "Verified"
         /\ vv.r # "nil"
         /\ VerifierVerify(vv.verifier, vv.token)
         /\ ParseVerifiablePresentationFromJWT(vv.token).err = ""
         /\ LET aud == UnmarshalClaims(vv.token.payload).aud.v
            IN  Len(aud) = 0 \/ \E j \in 1..Len(aud) : aud[j] \in {vv.verifier.ID, vv.verifier.KID}
         /\ vv.ret.headers.set /\ vv.ret.hasToken /\ vv.ret.hasPres
         /\ \A j \in 1..Len(vv.ret.pres.VerifiableCredential) :
              CredentialValid(vv.ret.pres.VerifiableCredential[j], vv.r)
         /\ Len(CredentialEvents(vv)) = Len(vv.ret.pres.VerifiableCredential)
    /\ (vv.ret.returned /\ vv.ret.err # "") =>
         /\ vv.pc = "Failed"
         /\ ~vv.ret.headers.set /\ ~vv.ret.hasToken /\ ~vv.ret.hasPres
         /\ vv.ret.pres = EmptyPres

\* a call that had parsed a presentation with credentials, and then failed
C4_Witness ==
    /\ vv.pc = "Failed"
    /\ vv.headers.set
    /\ Len(vv.vp.VerifiableCredential) > 1
    /\ vv.ret.err # ""
    /\ ~vv.ret.hasPres

\* the audience list is not empty and holds neither the verifier's identity
\* nor its key-id
NoAudienceMatch(audience, verifier) ==
    /\ Len(audience) > 0
    /\ \A j \in 1..Len(audience) : audience[j] # verifier.ID /\ audience[j] # verifier.KID

\* C5: once the claims are parsed and the audience check is done: a
\* non-empty audience list holding neither the verifier's identity nor its
\* key-id has failed the call with an audience mismatch before any embedded
\* credential was verified; an empty list (the check is skipped), or one
\* that names the verifier, causes no audience failure.
C5_AudienceCheck ==
    /\ vv.ret.err = "audience mismatch" => vv.headers.set
    /\ (vv.headers.set /\ vv.pc # "ClaimsParsed") =>
         IF NoAudienceMatch(vv.vpToken.aud.v, vv.verifier)
         THEN /\ vv.pc = "Failed"
              /\ vv.ret.err = "audience mismatch"
              /\ CredentialEvents(vv) = <<>>
         ELSE /\ vv.ret.err # "audience mismatch"
              /\ vv.pc = "Failed" => vv.failed >= 0

\* an audience mismatch on a presentation that embeds credentials
C5_Witness ==
    /\ vv.ret.err = "audience mismatch"
    /\ vv.vpToken.aud.v = <<"did:else">>
    /\ Len(vv.vp.VerifiableCredential) > 0

\* C6: a call without a resolver fails, whatever the token, before the
\* Verifier is called and before anything is parsed or verified.
C6_ResolverFirst ==
    (vv.pc # "idle" /\ vv.r = "nil") =>
        /\ vv.pc = "Failed"
        /\ vv.ret.err = "r cannot be empty"
        /\ vv.trace = <<>>
        /\ ~vv.headers.set

\* a token that would verify, handed in without a resolver
C6_Witness ==
    /\ vv.r = "nil"
    /\ vv.pc = "Failed"
    /\ vpSign.called /\ vpSign.err = "" /\ vpSign.presentation.Holder # ""
    /\ vv.token = vpSign.token
    /\ VerifierVerify(vv.verifier, vv.token)

----------------------------------------------------------------------------
(* The forward mapping *)

IsSet(v) == v.k # "absent"

\* C7: no field is both a registered claim and in the nested payload: in a
\* credential's claim set, exp, iss, iat/nbf, jti, sub set means the vc
\* object has no expirationDate, issuer, issuanceDate, id, subject "id"; in a
\* presentation's, jti, iss set means the vp object has no id, holder.
C7_NoFieldTwice ==
    /\ \A t \in {vcSign.t, vcSign.token.payload, vcPrev.t} :
         t.vc.set =>
           /\ IsSet(t.exp) => t.vc.c.ExpirationDate = ""
           /\ IsSet(t.iss) => t.vc.c.Issuer = NilV
           /\ (IsSet(t.iat) \/ IsSet(t.nbf)) => t.vc.c.IssuanceDate = ""
           /\ IsSet(t.jti) => t.vc.c.ID = ""
           /\ IsSet(t.sub) => ~MapHas(t.vc.c.CredentialSubject, VerifiableCredentialIDProperty)
    /\ \A t \in {vpSign.t, vpSign.token.payload} :
         t.vp.set =>
           /\ IsSet(t.jti) => t.vp.p.ID = ""
           /\ IsSet(t.iss) => t.vp.p.Holder = ""

\* issuer did:example:123, id urn:uuid:abc, subject {id: did:example:456}
C7_Witness ==
    /\ vcSign.called /\ vcSign.err = ""
    /\ vcSign.cred.CredentialSubject = MapOf([x \in {"id"} |-> "did:example:456"])
    /\ vcSign.token.payload.iss = StrV("did:example:123")
    /\ vcSign.token.payload.jti = StrV("urn:uuid:abc")
    /\ vcSign.token.payload.sub = StrV("did:example:456")
    /\ vcSign.token.payload.vc.c.Issuer = NilV
    /\ vcSign.token.payload.vc.c.ID = ""
    /\ vcSign.token.payload.vc.c.CredentialSubject = MapOf(<<>>)

\* C8: a signing call leaves the caller's credential or presentation as it
\* was passed in, the subject mapping and its "id" entry included.
C8_CallerObjectUnchanged ==
    /\ vcSign.called => cred = vcSign.cred
    /\ vpSign.called => pres = vpSign.presentation

\* C9: an empty credential or presentation, and one that carries a proof, is
\* refused with an error, and the Signer is not invoked.
C9_PreconditionErrors ==
    /\ (vcSign.called /\ (CredIsEmpty(vcSign.cred) \/ vcSign.cred.Proof)) =>
         vcSign.err # "" /\ ~vcSign.signed /\ ~vcSign.token.wf
    /\ (vpSign.called /\ (PresIsEmpty(vpSign.presentation) \/ vpSign.presentation.Proof)) =>
         vpSign.err # "" /\ ~vpSign.signed /\ ~vpSign.token.wf

\* a credential that would be signed but for its proof
C9_Witness ==
    /\ vcSign.called
    /\ vcSign.cred.Proof
    /\ Mappable([vcSign.cred EXCEPT !.Proof = FALSE])
    /\ JwtSignOK(vcSign.signer)
    /\ vcSign.err = "credential cannot already have a proof"

\* C10: no signed presentation token has an iss claim that is not the
\* signer's identity: a holder that is not empty and not the signer is an
\* error without the Signer being invoked; a holder that is the signer is
\* the iss claim.
C10_HolderIsSigner ==
    vpSign.called =>
      /\ (vpSign.presentation.Holder # "" /\ vpSign.presentation.Holder # vpSign.signer.ID) =>
           vpSign.err # "" /\ ~vpSign.signed /\ ~vpSign.token.wf
      /\ (vpSign.token.wf /\ IsSet(vpSign.token.payload.iss)) =>
           vpSign.token.payload.iss = StrV(vpSign.signer.ID)
      /\ (vpSign.err = "" /\ vpSign.presentation.Holder # "") =>
           /\ vpSign.token.wf
           /\ vpSign.token.payload.iss = StrV(vpSign.presentation.Holder)

\* a presentation of another holder, given to a signer whose key signs
C10_Witness ==
    /\ vpSign.called
    /\ vpSign.presentation.Holder = "did:other"
    /\ ~vpSign.presentation.Proof
    /\ JwtSignOK(vpSign.signer)
    /\ vpSign.err = "holder must be the same as the signer"


----------------------------------------------------------------------------
(* Nonces *)

\* C11: every claim set a signing call builds, for a credential or for a
\* presentation, carries a nonce claim, and no two claim sets built by any
\* sequence of signing calls carry the same nonce value, calls repeated on an
\* identical input included.
C11_FreshNonce ==
    /\ vcSign.t # NewToken => IsSet(vcSign.t.nonce)
    /\ vpSign.t # NewToken => IsSet(vpSign.t.nonce)
    /\ \A i \in DOMAIN nonces : nonces[i].k = "str" /\ nonces[i].s # ""
    /\ \A i, j \in DOMAIN nonces : i # j => nonces[i] # nonces[j]

\* two successive signing calls on an identical credential built two claim sets
C11_Witness ==
    /\ vcPrev.called /\ vcPrev.t # NewToken
    /\ vcSign.called /\ vcSign.t # NewToken
    /\ vcSign.cred = vcPrev.cred
    /\ Len(nonces) >= 2


----------------------------------------------------------------------------
(* Decoding received claim sets *)

\* C12 as stated: ParseVerifiableCredentialFromToken returns a credential and
\* no error for every claim set in which the vc claim is present, whatever the
\* value of vc and the presence or type of jti, iat, exp, iss and sub.
C12_NeverFailsWithVC ==
    (vcParse.called /\ claims.vc.set) => (vcParse.ok /\ vcParse.err = "")

\* C12: for a claim set in which the vc claim is present,
\* ParseVerifiableCredentialFromToken returns a credential and no error exactly
\* when the value of vc is a JSON object that fits a VerifiableCredential,
\* whatever the presence or type of jti, iat, exp, iss and sub; for any other
\* value of vc it returns the reconstruction error and no credential.
C12_NeverFailsWithDecodableVC ==
    (vcParse.called /\ claims.vc.set) =>
        IF claims.vc.shape = "object"
        THEN vcParse.ok /\ vcParse.err = ""
        ELSE /\ ~vcParse.ok
             /\ vcParse.err = "reconstructing Verifiable Credential"
             /\ vcParse.cred = EmptyCred

\* a claim set whose vc is a credential object and whose jti, iat, iss and sub
\* all have another type than expected was decoded
C12_Witness ==
    /\ vcParse.called /\ vcParse.ok
    /\ claims.vc.set /\ claims.vc.shape = "object"
    /\ claims.jti.k = "num" /\ claims.iat.k = "str"
    /\ claims.iss.k = "obj" /\ claims.sub.k = "num"


\* C13: decoding a credential fails when the vc claim is absent; decoding a
\* presentation fails when the vp claim is absent, or when the iss claim is
\* absent or not a string; these failures return no object at all.  A vc / vp
\* object decodes whichever of the other claims (jti, iat, exp, sub, and iss for
\* a credential) are absent.
C13_MandatoryClaims ==
    /\ (vcParse.called /\ ~claims.vc.set) =>
           (~vcParse.ok /\ vcParse.err # "" /\ vcParse.cred = EmptyCred)
    /\ (vpParse.called /\ (~claims.vp.set \/ claims.iss.k # "str")) =>
           /\ vpParse.ret.err # ""
           /\ ~vpParse.ret.hasPres /\ vpParse.ret.pres = EmptyPres
           /\ ~vpParse.ret.hasToken /\ ~vpParse.ret.headers.set
    /\ (vcParse.called /\ claims.vc.set /\ claims.vc.shape = "object") =>
           (vcParse.ok /\ vcParse.err = "")
    /\ (vpParse.called /\ claims.vp.set /\ claims.vp.shape = "object"
            /\ claims.iss.k = "str") =>
           (vpParse.ret.err = "" /\ vpParse.ret.hasPres)

\* a token with a vp object and no iss claim was refused, and the same claim
\* set, having no vc claim, was refused as a credential
C13_Witness ==
    /\ vpParse.called /\ claims.vp.set /\ claims.vp.shape = "object"
    /\ claims.iss = Absent
    /\ vpParse.ret.err = "did not find iss property in token"
    /\ vcParse.called /\ vcParse.err = "did not find vc property in token"


----------------------------------------------------------------------------
(* Errors of the forward mapping *)

\* the claim an error of JWTClaimSetFromVC names, "" when it names none
ClaimNamedBy(err) ==
    CASE err = "setting exp value"        -> "exp"
      [] err = "setting nonce value"      -> "nonce"
      [] err = "setting iss value"        -> "iss"
      [] err = "setting iat value"        -> "iat"
      [] err = "setting nbf value"        -> "nbf"
      [] err = "setting jti value"        -> "jti"
      [] err = "setting subject value"    -> "sub"
      [] err = "setting credential value" -> "vc"
      [] OTHER                            -> ""

\* the first claim whose Token.Set refuses the credential's value, "" when
\* every assignment succeeds
FailedAssignment(c) ==
    IF c.ExpirationDate # "" /\ ~SetDateOK(c.ExpirationDate) THEN "exp"
    ELSE IF ~SetIssuerOK(c.Issuer) THEN "iss"
    ELSE IF ~SetDateOK(c.IssuanceDate) THEN "iat"
    ELSE ""

\* C14: when a claim assignment fails during the forward mapping of a
\* credential, the error returned names the claim whose assignment failed (iss
\* for iss, exp for exp, iat for iat) and no other claim.
C14_ErrorNamesClaim ==
    (/\ vcSign.called
     /\ CredentialPrecondition(vcSign.cred) = ""
     /\ FailedAssignment(vcSign.cred) # "")
        => ClaimNamedBy(vcSign.err) = FailedAssignment(vcSign.cred)


----------------------------------------------------------------------------
(* Verification of a credential token *)

\* C15: when the Verifier rejects the token, VerifyVerifiableCredentialJWT
\* returns the verification error, the token is not parsed, and no headers,
\* token handle or credential are returned; a credential is returned only for
\* a token the Verifier accepted.
C15_StopsAtSignatureFailure ==
    vcVerify.called =>
        /\ ~vcVerify.accepted =>
               /\ vcVerify.ret.err = "verifying JWT"
               /\ ~vcVerify.ret.parsed
               /\ ~vcVerify.ret.headers.set
               /\ ~vcVerify.ret.hasToken
               /\ ~vcVerify.ret.hasCred /\ vcVerify.ret.cred = EmptyCred
        /\ vcVerify.ret.hasCred => vcVerify.accepted

\* a well-formed credential token, signed with another key than the
\* verifier's, was rejected
C15_Witness ==
    /\ vcVerify.called /\ vcVerify.token.wf /\ vcVerify.token.payload.vc.set
    /\ ~vcVerify.accepted
    /\ vcVerify.ret.err = "verifying JWT"


----------------------------------------------------------------------------
(* The order of a presentation's verification *)

\* the states a call may be in once its signature check passed
PastSignature == {"SignatureValid", "ClaimsParsed", "AudienceChecked",
                  "VerifyingCredential", "Verified"}

\* one step of a call from state a to state b follows the state machine
ForwardStep(a, b) ==
    CASE a.pc = "idle"               -> b.pc \in {"SignatureUnchecked", "Failed"}
      [] a.pc = "SignatureUnchecked" -> b.pc \in {"SignatureValid", "Failed"}
      [] a.pc = "SignatureValid"     -> b.pc \in {"ClaimsParsed", "Failed"}
      [] a.pc = "ClaimsParsed"       -> b.pc \in {"AudienceChecked", "Failed"}
      [] a.pc = "AudienceChecked"    ->
            \/ b.pc = "VerifyingCredential" /\ b.i = 0
            \/ b.pc = "Verified" /\ Len(b.vp.VerifiableCredential) = 0
      [] a.pc = "VerifyingCredential" ->
            \/ b.pc = "VerifyingCredential" /\ b.i = a.i + 1
            \/ b.pc = "Verified" /\ a.i + 1 = Len(b.vp.VerifiableCredential)
            \/ b.pc = "Failed"
      [] OTHER -> FALSE

\* what a call has done so far is a prefix of: verify the signature, parse the
\* claims, check the audience, verify credential 0, 1, ...; and each of these
\* was done only after the one before it had passed
StepsInOrder(v) ==
    /\ \A j \in DOMAIN v.trace :
         v.trace[j].op = CASE j = 1 -> "Verify" [] j = 2 -> "Parse"
                           [] j = 3 -> "Audience" [] OTHER -> "Credential"
    /\ Len(v.trace) >= 2 => VerifierVerify(v.verifier, v.token)
    /\ Len(v.trace) >= 3 => ParseVerifiablePresentationFromJWT(v.token).err = ""
    /\ Len(v.trace) >= 4 => ~NoAudienceMatch(v.vpToken.aud.v, v.verifier)
    /\ v.pc \in PastSignature => VerifierVerify(v.verifier, v.token)
    /\ v.pc = "Verified" => Len(v.trace) = 3 + Len(v.vp.VerifiableCredential)

\* C16: a VerifyVerifiablePresentationJWT call moves only forward through
\* SignatureUnchecked, SignatureValid, ClaimsParsed, AudienceChecked,
\* VerifyingCredential(0..n-1), Verified: the claims are parsed only after the
\* signature verified, the audience is checked only after parsing, credentials
\* are verified only after the audience check; Failed and Verified are
\* terminal: after either, no step of that call runs.
C16_ForwardOnly ==
    /\ [](StepsInOrder(vv))
    /\ [][vv' # vv => ForwardStep(vv, vv')]_vars

\* a call went through every state and verified two credentials or more
C16_Witness ==
    /\ vv.pc = "Verified"
    /\ Len(vv.vp.VerifiableCredential) >= 2
    /\ Len(vv.trace) = 3 + Len(vv.vp.VerifiableCredential)


----------------------------------------------------------------------------
(* Field precedence of the backward mapping *)

\* the claim is present as a non-empty string
NonEmptyString(v) == v.k = "str" /\ v.s # ""

\* C17: in the credential decoded from a claim set, a jti, iss or sub claim
\* that is a non-empty string overrides the id, the issuer or the subject "id"
\* of the nested vc object; when the claim is absent, empty or of another type
\* the nested value is kept unchanged; iat and exp override issuanceDate and
\* expirationDate only when they are time values.
C17_FieldPrecedence ==
    (vcParse.called /\ vcParse.ok) =>
        LET nested == claims.vc.c
            c      == vcParse.cred
        IN  /\ c.ID = IF NonEmptyString(claims.jti) THEN claims.jti.s ELSE nested.ID
            /\ c.Issuer = IF NonEmptyString(claims.iss) THEN StrV(claims.iss.s)
                          ELSE nested.Issuer
            /\ IF NonEmptyString(claims.sub)
               THEN GetID(c.CredentialSubject) = claims.sub.s
               ELSE c.CredentialSubject = nested.CredentialSubject
            /\ c.IssuanceDate = IF claims.iat.k = "time"
                                THEN FormatRFC3339(claims.iat.n)
                                ELSE nested.IssuanceDate
            /\ c.ExpirationDate = IF claims.exp.k = "time"
                                  THEN FormatRFC3339(claims.exp.n)
                                  ELSE nested.ExpirationDate

\* a nested credential with its own id, issuer, subject id and dates was
\* decoded under a jti that overrides, an empty iss, a sub that is no string,
\* an iat that is no time and no exp
C17_Witness ==
    /\ vcParse.called /\ vcParse.ok
    /\ claims.vc.c.ID = "urn:nested"
    /\ claims.jti = StrV("urn:uuid:claim") /\ vcParse.cred.ID = "urn:uuid:claim"
    /\ claims.iss = StrV("") /\ vcParse.cred.Issuer = StrV("did:nested-issuer")
    /\ claims.sub.k = "num"
    /\ GetID(vcParse.cred.CredentialSubject) = "did:nested-subject"
    /\ claims.iat.k = "str" /\ vcParse.cred.IssuanceDate = D1Off
    /\ claims.exp = Absent /\ vcParse.cred.ExpirationDate = D2Off


----------------------------------------------------------------------------
(* Two calls on one credential *)

\* C18: two successive SignVerifiableCredentialJWT calls on the caller's
\* credential object that both build a claim set build claim sets equal in
\* every claim (iss, sub, jti, iat, nbf, exp, vc) except the nonce.
C18_DeterministicUpToNonce ==
    (/\ vcPrev.called /\ vcPrev.t # NewToken
     /\ vcSign.called /\ vcSign.t # NewToken)
        => [vcSign.t EXCEPT !.nonce = Absent] = [vcPrev.t EXCEPT !.nonce = Absent]


----------------------------------------------------------------------------
(* The wallet's mutex *)

\* goroutine g is at a read or a write of the wallet's maps
Accessing(g) == th[g].pc \in {"cs", "read", "range"}

\* C19: a goroutine that reads or writes the wallet's vcs or dids map, in any
\* wallet method, holds the wallet's mutex while it does, and so no read
\* overlaps another goroutine's write.
C19_AccessUnderMutex ==
    \A g \in Goroutines :
        /\ Accessing(g) => mux = g
        /\ th[g].ret # "race"


----------------------------------------------------------------------------
(* The wallet's entries *)

\* no two keys under one DID have the same id
KeyIDsUnique ==
    \A d \in DOMAIN dids : \A i, j \in DOMAIN dids[d] :
        i # j => dids[d][i].ID # dids[d][j].ID

IsPrefix(a, b) == Len(a) <= Len(b) /\ \A i \in DOMAIN a : a[i] = b[i]

\* a step keeps every credential with its value, every DID, and every key of
\* every DID
EntriesKept ==
    /\ \A c \in DOMAIN vcs : c \in DOMAIN vcs' /\ vcs'[c] = vcs[c]
    /\ \A d \in DOMAIN dids : d \in DOMAIN dids' /\ IsPrefix(dids[d], dids'[d])

\* the call adds what the wallet has already, or a key to a DID it has not
AddsExisting(c) ==
    \/ c.op = "AddDID" /\ c.id \in DOMAIN dids
    \/ c.op = "AddPrivateKey" /\ c.id \notin DOMAIN dids
    \/ c.op = "AddPrivateKey" /\ c.id \in DOMAIN dids
         /\ \E i \in DOMAIN dids[c.id] : dids[c.id][i].ID = c.kid
    \/ c.op = "AddCredentialJWT" /\ c.id \in DOMAIN vcs

\* a step in which such a call runs returns an error and changes neither map
RefusalsChangeNothing ==
    \A g \in Goroutines :
        (th[g].pc = "cs" /\ th'[g].pc = "idle" /\ AddsExisting(th[g].call)) =>
            /\ th'[g].ret \notin {"", "ok"}
            /\ vcs' = vcs /\ dids' = dids

====
